---- MODULE Spec2Model ----
(***************************************************************************)
(* Order lifecycle and royalty settlement of the PIF Selection-Connection  *)
(* marketplace: the create-checkout, stripe-webhook, resend-download and   *)
(* download edge functions over the orders / payouts / override_controls   *)
(* tables.                                                                 *)
(*                                                                         *)
(* Every handler is cut at its awaited database calls: one action per      *)
(* database round trip, with the handler's locals kept in a request slot   *)
(* between the steps, so that handlers interleave exactly where the edge   *)
(* runtime lets them.  Database statements themselves are atomic.          *)
(*                                                                         *)
(* Model time is counted in hours.  Tokens and ids produced by             *)
(* crypto.randomUUID() are fresh values, drawn from a counter.             *)
(***************************************************************************)
EXTENDS Integers, Sequences, FiniteSets, Bags, TLC

\* ------------------------------------------------------------------ bounds
MaxOrders == 1        \* orders create-checkout may insert
MaxTokens == 3        \* download tokens generated while handlers interleave
SeqMaxTokens == 3     \* download tokens generated when requests come one at a time
LadderMaxTokens == 7  \* download tokens generated on the way to the retry limit
ShopMaxOrders == 2    \* orders inserted when checkout is called again and again
ShopMaxTokens == 2    \* download tokens generated for those orders
RedeemMaxTokens == 2   \* download tokens generated while downloads race
RaceMaxTokens == 4     \* download tokens generated while renewals race
MaxPrice == 30        \* base prices the calculator is called with: 0..MaxPrice and two more
MaxSplit == 3         \* participants of a royalty chain the calculator is called with
MaxRenewCalls == 7    \* resend-download calls counted per order
MaxTime == 73         \* last instant of the model clock (hours)
MaxAttempts == 2      \* cap on download_attempts
MaxInflight == 2      \* handlers in flight at once

\* --------------------------------------------------------- program constants
MAX_DELIVERY_RETRIES == 5
DOWNLOAD_TOKEN_TTL_H == 72
BASIS_POINTS == 10000

NULL == -1
NoUser == "anon"
Buyer == "buyer@x"
Other == "other@x"
Users == {NoUser, Buyer, Other}

\* ------------------------------------------------------ listings (read-only)
\* files and file_royalty_chain rows; the core never writes them.
FileIds == {1, 2, 3, 4, 5}
MissingFile == 9

files(f) ==
  CASE f = 1 -> [price_cents |-> 500, stage |-> "listed"]
    [] f = 2 -> [price_cents |-> 333, stage |-> "listed"]
    [] f = 4 -> [price_cents |-> 1000, stage |-> "listed"]
    [] f = 5 -> [price_cents |-> 200, stage |-> "listed"]
    [] OTHER -> [price_cents |-> 700, stage |-> "draft"]

file_royalty_chain(f) ==
  CASE f = 1 -> << [member_id |-> 1, share_basis_points |-> 10000] >>
    [] f = 3 -> << [member_id |-> 2, share_basis_points |-> 10000] >>
    [] f = 2 -> << [member_id |-> 1, share_basis_points |-> 5000],
                   [member_id |-> 2, share_basis_points |-> 5000] >>
    [] f = 4 -> << [member_id |-> 1, share_basis_points |-> 6000],
                   [member_id |-> 2, share_basis_points |-> 3000] >>
    [] OTHER -> << >>

\* ------------------------------------------------------------------- state
VARIABLES
  orders,      \* the orders table: a sequence, order id = index
  payouts,     \* the payouts table: a bag of rows (a row's own id is left out)
  overrides,   \* the override_controls table: feature_key -> enabled
  now,         \* the clock
  nextToken,   \* the next fresh token
  reqs,        \* handlers in flight: slot -> the handler's position and locals
  audit,       \* per order: the buyer's resend-download calls answered, and those answered 200
  calc         \* a call of the royalty calculator: its arguments and what it returned

vars == << orders, payouts, overrides, now, nextToken, reqs, audit, calc >>

Slots == 1..MaxInflight

Idle == [pc |-> "idle", oid |-> 0, tok |-> NULL, exp |-> NULL, at |-> NULL,
         n |-> 0, file |-> 0, email |-> NoUser]

\* Math.round on a non-negative quotient num/den: round half up.
Round(num, den) == (2 * num + den) \div (2 * den)

FreeSlot == CHOOSE s \in Slots : reqs[s].pc = "idle" /\ \A t \in Slots : reqs[t].pc = "idle" => s <= t
HasFreeSlot == \E s \in Slots : reqs[s].pc = "idle"

\* No call of the calculator is being looked at.
NoPricing == [total_cents |-> 0, pif_fee_cents |-> 0, base_price_cents |-> 0,
              payouts |-> << >>]

NoCalc == [step |-> "none", priceCents |-> 0, royaltyChain |-> << >>,
           pricing |-> NoPricing, payoutRows |-> << >>]

Init ==
  /\ orders = << >>
  /\ payouts = EmptyBag
  /\ overrides = [k \in {"master_switch", "marketplace_purchase"} |-> FALSE]
  /\ now = 0
  /\ nextToken = 1
  /\ reqs = [s \in Slots |-> Idle]
  /\ audit = << >>
  /\ calc = NoCalc

\* ---------------------------------------------------------- create-checkout
isPurchaseEnabled == overrides["marketplace_purchase"]

\* Mutant of calculatePricing: the total is cut off instead of rounded.
calculatePricingTruncates(priceCents, royaltyChain) ==
  LET totalCents == (priceCents * 11) \div 10
  IN [total_cents |-> totalCents,
      pif_fee_cents |-> totalCents - priceCents,
      base_price_cents |-> priceCents,
      payouts |-> [i \in DOMAIN royaltyChain |->
                     [member_id |-> royaltyChain[i].member_id,
                      amount_cents |-> Round(priceCents * royaltyChain[i].share_basis_points,
                                             BASIS_POINTS)]]]

\* total = round(price * 1.10); fee = total - price; one payout per chain entry.
calculatePricing(priceCents, royaltyChain) ==
  LET totalCents == Round(priceCents * 11, 10)
  IN [total_cents |-> totalCents,
      pif_fee_cents |-> totalCents - priceCents,
      base_price_cents |-> priceCents,
      payouts |-> [i \in DOMAIN royaltyChain |->
                     [member_id |-> royaltyChain[i].member_id,
                      amount_cents |-> Round(priceCents * royaltyChain[i].share_basis_points,
                                             BASIS_POINTS)]]]

\* Mutant of NewOrder: the row is given the base price as its total.
NewOrderNoFee(file_id, buyer_email, sessionId, pricing) ==
  [file_id |-> file_id,
   buyer_email |-> buyer_email,
   stripe_session_id |-> sessionId,
   payment_status |-> "pending",
   total_cents |-> pricing.base_price_cents,
   pif_fee_cents |-> pricing.pif_fee_cents,
   download_token |-> NULL,
   download_expires_at |-> NULL,
   downloaded_at |-> NULL,
   download_attempts |-> 0,
   delivery_email_retries |-> 0,
   paid_at |-> NULL]

\* The row create-checkout inserts: pending, no token, counters at their defaults.
NewOrder(file_id, buyer_email, sessionId, pricing) ==
  [file_id |-> file_id,
   buyer_email |-> buyer_email,
   stripe_session_id |-> sessionId,
   payment_status |-> "pending",
   total_cents |-> pricing.total_cents,
   pif_fee_cents |-> pricing.pif_fee_cents,
   download_token |-> NULL,
   download_expires_at |-> NULL,
   downloaded_at |-> NULL,
   download_attempts |-> 0,
   delivery_email_retries |-> 0,
   paid_at |-> NULL]

\* Mutant of CheckoutGate: the stage of the listing is not looked at.
CheckoutGateAnyStage(file_id, buyer_email) ==
  IF file_id = 0 \/ buyer_email = NoUser THEN 400
  ELSE IF ~isPurchaseEnabled THEN 403
  ELSE IF file_id \notin FileIds THEN 404
  ELSE IF Len(file_royalty_chain(file_id)) = 0 THEN 500
  ELSE 0

\* Mutant of CheckoutGate: the listing is looked up before the purchase flag.
CheckoutGateFileFirst(file_id, buyer_email) ==
  IF file_id = 0 \/ buyer_email = NoUser THEN 400
  ELSE IF file_id \notin FileIds THEN 404
  ELSE IF files(file_id).stage # "listed" THEN 422
  ELSE IF ~isPurchaseEnabled THEN 403
  ELSE IF Len(file_royalty_chain(file_id)) = 0 THEN 500
  ELSE 0

\* The status create-checkout answers before it inserts (0: it goes on to insert).
CheckoutGate(file_id, buyer_email) ==
  IF file_id = 0 \/ buyer_email = NoUser THEN 400
  ELSE IF ~isPurchaseEnabled THEN 403
  ELSE IF file_id \notin FileIds THEN 404
  ELSE IF files(file_id).stage # "listed" THEN 422
  ELSE IF Len(file_royalty_chain(file_id)) = 0 THEN 500
  ELSE 0

NewAudit == [renewCalls |-> 0, renewOk |-> 0]

\* POST /create-checkout.  Its reads are of the listing tables and of the
\* purchase flag; the one write is the order insert, which may fail (500).
\* Every early return leaves the tables as they are.
CreateCheckout(file_id, buyer_email, insertOk) ==
  IF CheckoutGate(file_id, buyer_email) # 0 \/ ~insertOk
    THEN UNCHANGED vars
    ELSE /\ orders' = Append(orders,
                        NewOrder(file_id, buyer_email, Len(orders) + 1,
                                 calculatePricing(files(file_id).price_cents,
                                                  file_royalty_chain(file_id))))
         /\ audit' = Append(audit, NewAudit)
         /\ UNCHANGED << payouts, overrides, now, nextToken, reqs, calc >>

\* ----------------------------------------------------------- admin-overrides
\* PUT /admin-overrides: the admin sets one override_controls row; anyone else
\* is answered 403 and an unknown key 404.
AdminOverridesPut(isAdminUser, feature_key, enabled) ==
  IF ~isAdminUser \/ feature_key \notin DOMAIN overrides
    THEN UNCHANGED vars
    ELSE /\ overrides' = [overrides EXCEPT ![feature_key] = enabled]
         /\ UNCHANGED << orders, payouts, now, nextToken, reqs, audit, calc >>

\* ------------------------------------------------------------ stripe-webhook
\* The stub trusts every body that carries a Stripe-Signature header.
verifyStripeSignature(signature) == signature # "missing"

\* Mutant of OrderBySession: the lookup settles for any order when none matches.
OrderBySessionAny(sessionId) ==
  IF \E i \in DOMAIN orders : orders[i].stripe_session_id = sessionId
    THEN CHOOSE i \in DOMAIN orders : orders[i].stripe_session_id = sessionId
    ELSE IF orders # << >> THEN CHOOSE i \in DOMAIN orders : TRUE ELSE 0

\* select ... from orders where stripe_session_id = sessionId (.single()); 0: no row.
OrderBySession(sessionId) ==
  IF \E i \in DOMAIN orders : orders[i].stripe_session_id = sessionId
    THEN CHOOSE i \in DOMAIN orders : orders[i].stripe_session_id = sessionId
    ELSE 0

\* The status the webhook answers before the update of handleCheckoutCompleted
\* (0: it goes on).  handlePaymentFailed is a stub and other events are only
\* acknowledged: both answer 200 and write nothing.
WebhookGate(signature, eventType, sessionId, metaFile, metaEmail) ==
  IF ~verifyStripeSignature(signature) THEN 401
  ELSE IF eventType # "checkout.session.completed" THEN 200
  ELSE IF metaFile = 0 \/ metaEmail = NoUser THEN 400
  ELSE IF OrderBySession(sessionId) = 0 THEN 404
  ELSE 0

\* Mutant of MarkPaid: the credential expires at the moment of payment.
MarkPaidExpiresAtPayment(o, tok, exp, at) ==
  [o EXCEPT !.payment_status = "paid",
            !.download_token = tok,
            !.download_expires_at = at,
            !.paid_at = at]

\* Mutant of MarkPaid: the update also writes the base price over total_cents.
MarkPaidRewritesTotal(o, tok, exp, at) ==
  [o EXCEPT !.payment_status = "paid",
            !.download_token = tok,
            !.download_expires_at = exp,
            !.paid_at = at,
            !.total_cents = o.total_cents - o.pif_fee_cents]

\* Mutant of MarkPaid: the update leaves paid_at out.
MarkPaidNoPaidAt(o, tok, exp, at) ==
  [o EXCEPT !.payment_status = "paid",
            !.download_token = tok,
            !.download_expires_at = exp]

\* update orders set payment_status, download_token, download_expires_at, paid_at
\* where id = order.id: no condition on the row's current payment_status.
MarkPaid(o, tok, exp, at) ==
  [o EXCEPT !.payment_status = "paid",
            !.download_token = tok,
            !.download_expires_at = exp,
            !.paid_at = at]

\* Mutant of PayoutRows: the rows are inserted as already transferred.
PayoutRowsTransferred(oid, basePriceCents, royaltyChain) ==
  [i \in DOMAIN royaltyChain |->
     [order_id |-> oid,
      member_id |-> royaltyChain[i].member_id,
      amount_cents |-> Round(basePriceCents * royaltyChain[i].share_basis_points,
                             BASIS_POINTS),
      status |-> "pending_transfer"]]

\* The rows handleCheckoutCompleted inserts: one per entry of the chain of the
\* file named by the event metadata, each a share of total_cents - pif_fee_cents.
PayoutRows(oid, basePriceCents, royaltyChain) ==
  [i \in DOMAIN royaltyChain |->
     [order_id |-> oid,
      member_id |-> royaltyChain[i].member_id,
      amount_cents |-> Round(basePriceCents * royaltyChain[i].share_basis_points,
                             BASIS_POINTS),
      status |-> "pending"]]

\* Mutant of InsertRows: only the first row of the batch gets in.
InsertRowsFirst(table, rows) ==
  IF rows = << >> THEN table ELSE table (+) SetToBag({Head(rows)})

\* insert into payouts: every row of the batch, in one statement.
RECURSIVE InsertRows(_, _)
InsertRows(table, rows) ==
  IF rows = << >> THEN table
  ELSE InsertRows(table (+) SetToBag({Head(rows)}), Tail(rows))

\* POST /stripe-webhook up to the order lookup of handleCheckoutCompleted; the
\* token, the expiry and paid_at are computed as soon as the lookup returns.
StripeWebhook(signature, eventType, sessionId, metaFile, metaEmail) ==
  IF WebhookGate(signature, eventType, sessionId, metaFile, metaEmail) # 0
    THEN UNCHANGED vars
    ELSE /\ HasFreeSlot
         /\ reqs' = [reqs EXCEPT ![FreeSlot] =
                       [pc |-> "ck_update", oid |-> OrderBySession(sessionId),
                        tok |-> nextToken,
                        exp |-> now + DOWNLOAD_TOKEN_TTL_H, at |-> now,
                        n |-> orders[OrderBySession(sessionId)].total_cents
                              - orders[OrderBySession(sessionId)].pif_fee_cents,
                        file |-> metaFile, email |-> metaEmail]]
         /\ nextToken' = nextToken + 1
         /\ UNCHANGED << orders, payouts, overrides, now, audit, calc >>

\* handleCheckoutCompleted: the update that marks the order paid (500 and
\* nothing further when it fails).
CheckoutUpdate(s, updateOk) ==
  /\ reqs[s].pc = "ck_update"
  /\ IF ~updateOk
       THEN /\ reqs' = [reqs EXCEPT ![s] = Idle]
            /\ UNCHANGED << orders, payouts, overrides, now, nextToken, audit, calc >>
       ELSE /\ orders' = [orders EXCEPT ![reqs[s].oid] =
                            MarkPaid(@, reqs[s].tok, reqs[s].exp, reqs[s].at)]
            /\ reqs' = [reqs EXCEPT ![s].pc = "ck_payouts"]
            /\ UNCHANGED << payouts, overrides, now, nextToken, audit, calc >>

\* handleCheckoutCompleted: the payout insert (one statement for the whole
\* batch, which may fail as a whole and is then only logged), then the
\* delivery e-mail carrying the handler's token, and the 200.
CheckoutPayouts(s, insertOk) ==
  /\ reqs[s].pc = "ck_payouts"
  /\ payouts' = IF Len(file_royalty_chain(reqs[s].file)) > 0 /\ insertOk
                  THEN InsertRows(payouts,
                                  PayoutRows(reqs[s].oid, reqs[s].n,
                                             file_royalty_chain(reqs[s].file)))
                  ELSE payouts
  /\ reqs' = [reqs EXCEPT ![s] = Idle]
  /\ UNCHANGED << orders, overrides, now, nextToken, audit, calc >>

\* ----------------------------------------------------------- resend-download
\* Mutant of ResendGate: the payment check is missing.
ResendGateNoPaidCheck(user, oid) ==
  IF user = NoUser THEN 401
  ELSE IF oid = 0 THEN 400
  ELSE IF oid \notin DOMAIN orders THEN 404
  ELSE IF user # orders[oid].buyer_email THEN 403
  ELSE IF orders[oid].delivery_email_retries >= MAX_DELIVERY_RETRIES THEN 429
  ELSE 0

\* Mutant of ResendGate: the retry limit is compared with > instead of >=.
ResendGateOffByOne(user, oid) ==
  IF user = NoUser THEN 401
  ELSE IF oid = 0 THEN 400
  ELSE IF oid \notin DOMAIN orders THEN 404
  ELSE IF user # orders[oid].buyer_email THEN 403
  ELSE IF orders[oid].payment_status # "paid" THEN 422
  ELSE IF orders[oid].delivery_email_retries > MAX_DELIVERY_RETRIES THEN 429
  ELSE 0

\* Mutant of ResendGate: the retry limit is checked before the buyer.
ResendGateLimitFirst(user, oid) ==
  IF user = NoUser THEN 401
  ELSE IF oid = 0 THEN 400
  ELSE IF oid \notin DOMAIN orders THEN 404
  ELSE IF orders[oid].delivery_email_retries >= MAX_DELIVERY_RETRIES THEN 429
  ELSE IF user # orders[oid].buyer_email THEN 403
  ELSE IF orders[oid].payment_status # "paid" THEN 422
  ELSE 0

\* The status resend-download answers before its update (0: it goes on).
\* oid = 0 is a request without order_id.
ResendGate(user, oid) ==
  IF user = NoUser THEN 401
  ELSE IF oid = 0 THEN 400
  ELSE IF oid \notin DOMAIN orders THEN 404
  ELSE IF user # orders[oid].buyer_email THEN 403
  ELSE IF orders[oid].payment_status # "paid" THEN 422
  ELSE IF orders[oid].delivery_email_retries >= MAX_DELIVERY_RETRIES THEN 429
  ELSE 0

\* Mutant of Reissue: the update leaves the old token in place.
ReissueKeepsToken(o, tok, exp, retries) ==
  [o EXCEPT !.download_expires_at = exp,
            !.delivery_email_retries = retries + 1]

\* Mutant of Reissue: the update also puts the order back to pending.
ReissueResetsStatus(o, tok, exp, retries) ==
  [o EXCEPT !.payment_status = "pending",
            !.download_token = tok,
            !.download_expires_at = exp,
            !.delivery_email_retries = retries + 1]

\* Mutant of Reissue: the update leaves the old expiry in place.
ReissueKeepsExpiry(o, tok, exp, retries) ==
  [o EXCEPT !.download_token = tok,
            !.delivery_email_retries = retries + 1]

\* update orders set download_token, download_expires_at, delivery_email_retries
\* where id = order.id; retries is the count the handler read earlier.
Reissue(o, tok, exp, retries) ==
  [o EXCEPT !.download_token = tok,
            !.download_expires_at = exp,
            !.delivery_email_retries = retries + 1]

\* POST /resend-download up to the retry-limit check.  A call turned away at
\* the retry limit is counted as answered; the other early returns are not
\* about an order the caller may renew.
ResendDownload(user, oid) ==
  IF ResendGate(user, oid) = 429
    THEN /\ audit' = [audit EXCEPT ![oid].renewCalls = @ + 1]
         /\ UNCHANGED << orders, payouts, overrides, now, nextToken, reqs, calc >>
  ELSE IF ResendGate(user, oid) # 0
    THEN UNCHANGED vars
    ELSE /\ HasFreeSlot
         /\ reqs' = [reqs EXCEPT ![FreeSlot] =
                       [pc |-> "rn_update", oid |-> oid, tok |-> nextToken,
                        exp |-> now + DOWNLOAD_TOKEN_TTL_H, at |-> now,
                        n |-> orders[oid].delivery_email_retries,
                        file |-> orders[oid].file_id,
                        email |-> orders[oid].buyer_email]]
         /\ nextToken' = nextToken + 1
         /\ UNCHANGED << orders, payouts, overrides, now, audit, calc >>

\* resend-download: the update (500 when it fails), then the delivery e-mail
\* carrying the new token, and the 200.
ResendUpdate(s, updateOk) ==
  /\ reqs[s].pc = "rn_update"
  /\ IF ~updateOk
       THEN /\ reqs' = [reqs EXCEPT ![s] = Idle]
            /\ UNCHANGED << orders, payouts, overrides, now, nextToken, audit, calc >>
       ELSE /\ orders' = [orders EXCEPT ![reqs[s].oid] =
                            Reissue(@, reqs[s].tok, reqs[s].exp, reqs[s].n)]
            /\ audit' = [audit EXCEPT ![reqs[s].oid].renewCalls = @ + 1,
                                      ![reqs[s].oid].renewOk = @ + 1]
            /\ reqs' = [reqs EXCEPT ![s] = Idle]
            /\ UNCHANGED << payouts, overrides, now, nextToken, calc >>

\* Mutant of ResendOutcome: a delivery e-mail that fails fails the request.
ResendOutcomeEmailFatal(updateOk, emailSent) ==
  IF ~updateOk THEN 500 ELSE IF ~emailSent THEN 502 ELSE 200

\* The status resend-download answers once it is past its checks: 500 when
\* the update failed; otherwise 200, the result of sendDeliveryEmail being
\* logged only.
ResendOutcome(updateOk, emailSent) == IF ~updateOk THEN 500 ELSE 200

\* ------------------------------------------------------------------ download
\* Mutant of OrderByToken: a token the order held earlier still finds it.
OrderByTokenStale(token) ==
  IF \E i \in DOMAIN orders : orders[i].download_token # NULL /\ token <= orders[i].download_token
    THEN CHOOSE i \in DOMAIN orders :
           orders[i].download_token # NULL /\ token <= orders[i].download_token
    ELSE 0

\* select ... from orders where download_token = token (.single()); 0: no row.
OrderByToken(token) ==
  IF \E i \in DOMAIN orders : orders[i].download_token = token
    THEN CHOOSE i \in DOMAIN orders : orders[i].download_token = token
    ELSE 0

isExpired(o, t) == o.download_expires_at # NULL /\ t > o.download_expires_at

\* Mutant of isOwner: any signed-in user passes.
isOwnerAnyUser(o, user) == user # NoUser

\* user?.email === order.buyer_email
isOwner(o, user) == user # NoUser /\ user = o.buyer_email

\* Mutant of DownloadGate: an expired token is refused whoever asks.
DownloadGateNoReaccess(token, user) ==
  IF token = NULL THEN 400
  ELSE IF OrderByToken(token) = 0 THEN 404
  ELSE IF orders[OrderByToken(token)].payment_status # "paid" THEN 403
  ELSE IF isExpired(orders[OrderByToken(token)], now) THEN 410
  ELSE 0

\* The status download answers before it tracks the attempt (0: it goes on to
\* the 302).  token = NULL is a request without the token parameter.
DownloadGate(token, user) ==
  IF token = NULL THEN 400
  ELSE IF OrderByToken(token) = 0 THEN 404
  ELSE IF orders[OrderByToken(token)].payment_status # "paid" THEN 403
  ELSE IF isExpired(orders[OrderByToken(token)], now)
          /\ ~isOwner(orders[OrderByToken(token)], user) THEN 410
  ELSE 0

\* Mutant of TrackDownload: the update also clears the retry count.
TrackDownloadResetsRetries(o, at, attempts) ==
  [o EXCEPT !.downloaded_at = at, !.download_attempts = attempts + 1,
            !.delivery_email_retries = 0]

\* Mutant of TrackDownload: the update records the time but not the attempt.
TrackDownloadNoIncrement(o, at, attempts) ==
  [o EXCEPT !.downloaded_at = at]

\* update orders set downloaded_at, download_attempts where id = order.id;
\* attempts is the count the handler read earlier.
TrackDownload(o, at, attempts) ==
  [o EXCEPT !.downloaded_at = at, !.download_attempts = attempts + 1]

\* GET /download up to the signed URL.
Download(token, user) ==
  IF DownloadGate(token, user) # 0
    THEN UNCHANGED vars
    ELSE /\ HasFreeSlot
         /\ reqs' = [reqs EXCEPT ![FreeSlot] =
                       [pc |-> "dl_track", oid |-> OrderByToken(token), tok |-> token,
                        exp |-> NULL, at |-> now,
                        n |-> orders[OrderByToken(token)].download_attempts,
                        file |-> orders[OrderByToken(token)].file_id, email |-> user]]
         /\ UNCHANGED << orders, payouts, overrides, now, nextToken, audit, calc >>

\* download: the tracking update (its failure is logged only), then the 302.
DownloadTrack(s, trackOk) ==
  /\ reqs[s].pc = "dl_track"
  /\ orders' = IF trackOk
                 THEN [orders EXCEPT ![reqs[s].oid] =
                         TrackDownload(@, reqs[s].at, reqs[s].n)]
                 ELSE orders
  /\ reqs' = [reqs EXCEPT ![s] = Idle]
  /\ UNCHANGED << payouts, overrides, now, nextToken, audit, calc >>

\* The status download answers once it is past its checks: the redirect to
\* the signed URL, the result of the tracking update being logged only.
DownloadOutcome(trackOk) == 302

\* --------------------------------------------------------------------- clock
Tick(d) ==
  /\ now' = now + d
  /\ UNCHANGED << orders, payouts, overrides, nextToken, reqs, audit, calc >>

\* ------------------------------------------------------------ specifications
\* An exploration's limits, L: whether requests come one at a time, and how
\* many tokens may be generated and orders inserted.  The handlers themselves carry no bound.
Limits(oneAtATime, maxTokens, maxOrders) ==
  [oneAtATime |-> oneAtATime, maxTokens |-> maxTokens, maxOrders |-> maxOrders]

Quiet == \A s \in Slots : reqs[s].pc = "idle"

\* A request may arrive: at any time, or only when no handler is in flight.
Arrives(L) == L.oneAtATime => Quiet

Within(L) ==
  /\ Len(orders') <= L.maxOrders
  /\ nextToken' <= L.maxTokens + 1
  /\ now' <= MaxTime
  /\ \A i \in DOMAIN orders' : orders'[i].download_attempts <= MaxAttempts
  /\ \A i \in DOMAIN audit' : audit'[i].renewCalls <= MaxRenewCalls

\* The requests that arrive, over the inputs named.
DoCreateCheckout(F, E, L) ==
  /\ Arrives(L)
  /\ \E f \in F, e \in E, ok \in BOOLEAN : CreateCheckout(f, e, ok)
  /\ Within(L)

DoAdminOverridesPut(A, K, E, L) ==
  /\ Arrives(L)
  /\ \E a \in A, k \in K, en \in E : AdminOverridesPut(a, k, en)
  /\ Within(L)

DoStripeWebhook(S, T, F, E, L) ==
  /\ Arrives(L)
  /\ \E sig \in S, ty \in T, sid \in 1..L.maxOrders + 1, mf \in F, me \in E :
       StripeWebhook(sig, ty, sid, mf, me)
  /\ Within(L)

DoResendDownload(U, L) ==
  /\ Arrives(L)
  /\ \E u \in U, oid \in 0..L.maxOrders + 1 : ResendDownload(u, oid)
  /\ Within(L)

DoDownload(U, L) ==
  /\ Arrives(L)
  /\ \E t \in {NULL} \cup 1..nextToken, u \in U : Download(t, u)
  /\ Within(L)

DoTick(D, L) ==
  /\ Arrives(L)
  /\ \E d \in D : Tick(d)
  /\ Within(L)

\* The handlers in flight take their next step, the statement succeeding or not.
DoCheckoutUpdate(L) == (\E s \in Slots, ok \in BOOLEAN : CheckoutUpdate(s, ok)) /\ Within(L)
DoCheckoutPayouts(L) == (\E s \in Slots, ok \in BOOLEAN : CheckoutPayouts(s, ok)) /\ Within(L)
DoResendUpdate(L) == (\E s \in Slots, ok \in BOOLEAN : ResendUpdate(s, ok)) /\ Within(L)
DoDownloadTrack(L) == (\E s \in Slots, ok \in BOOLEAN : DownloadTrack(s, ok)) /\ Within(L)

EventTypes == {"checkout.session.completed", "payment_intent.payment_failed",
               "customer.created"}

\* The clock jumps to the last instant of a token's lifetime or just past it.
Ticks == {DOWNLOAD_TOKEN_TTL_H, DOWNLOAD_TOKEN_TTL_H + 1}

\* Concurrent, independent request handling: any handler may start or take
\* its next step at any time.  The traffic is narrow: well-formed requests
\* about the single-participant listing, and an admin who only switches
\* purchasing on.
Concurrent == Limits(FALSE, MaxTokens, MaxOrders)

Next ==
  \/ DoCreateCheckout({1}, {Buyer}, Concurrent)
  \/ DoAdminOverridesPut({TRUE}, {"marketplace_purchase"}, {TRUE}, Concurrent)
  \/ DoStripeWebhook({"valid"}, {"checkout.session.completed"}, {1}, {Buyer}, Concurrent)
  \/ DoCheckoutUpdate(Concurrent)
  \/ DoCheckoutPayouts(Concurrent)
  \/ DoResendDownload({Buyer, Other}, Concurrent)
  \/ DoResendUpdate(Concurrent)
  \/ DoDownload({NoUser, Buyer}, Concurrent)
  \/ DoDownloadTrack(Concurrent)
  \/ DoTick(Ticks, Concurrent)

Spec == Init /\ [][Next]_vars

\* One request at a time (a handler starts only when none is in flight), over
\* every kind of request: malformed, unauthenticated, about listings of every
\* kind, with the admin switching either flag either way.
Sequential == Limits(TRUE, SeqMaxTokens, MaxOrders)

SeqNext ==
  \/ DoCreateCheckout({0, 1, 2, 3, MissingFile}, {NoUser, Buyer}, Sequential)
  \/ DoAdminOverridesPut(BOOLEAN, {"master_switch", "marketplace_purchase", "unknown"},
                         BOOLEAN, Sequential)
  \/ DoStripeWebhook({"missing", "invalid", "valid"}, EventTypes, {0, 1, 2},
                     {NoUser, Buyer}, Sequential)
  \/ DoCheckoutUpdate(Sequential)
  \/ DoCheckoutPayouts(Sequential)
  \/ DoResendDownload(Users, Sequential)
  \/ DoResendUpdate(Sequential)
  \/ DoDownload(Users, Sequential)
  \/ DoDownloadTrack(Sequential)
  \/ DoTick(Ticks, Sequential)

SeqSpec == Init /\ [][SeqNext]_vars

\* One request at a time, long enough for an order to use up its delivery
\* retries: the traffic of Next, with the payment event also arriving without
\* a signature.
Ladder == Limits(TRUE, LadderMaxTokens, MaxOrders)

LadderNext ==
  \/ DoCreateCheckout({1}, {Buyer}, Ladder)
  \/ DoAdminOverridesPut({TRUE}, {"marketplace_purchase"}, {TRUE}, Ladder)
  \/ DoStripeWebhook({"missing", "valid"}, {"checkout.session.completed"}, {1}, {Buyer},
                     Ladder)
  \/ DoCheckoutUpdate(Ladder)
  \/ DoCheckoutPayouts(Ladder)
  \/ DoResendDownload(Users, Ladder)
  \/ DoResendUpdate(Ladder)
  \/ DoDownload(Users, Ladder)
  \/ DoDownloadTrack(Ladder)
  \/ DoTick(Ticks, Ladder)

LadderSpec == Init /\ [][LadderNext]_vars

\* The royalty calculator on its own: calculatePricing is called with a base
\* price and a royalty chain, and the payout rows of handleCheckoutCompleted
\* are then computed from the total and fee it returned, as they are from the
\* order that stores them.
Prices == 0..MaxPrice \cup {333, 500}

Shares == {2500, 3333, 3334, 5000, 7500, 10000}

ChainOf(shares) ==
  [i \in DOMAIN shares |-> [member_id |-> i, share_basis_points |-> shares[i]]]

Chains == {ChainOf(sh) : sh \in UNION {[1..n -> Shares] : n \in 1..MaxSplit}}

PricingInit ==
  /\ orders = << >>
  /\ payouts = EmptyBag
  /\ overrides = [k \in {"master_switch", "marketplace_purchase"} |-> FALSE]
  /\ now = 0
  /\ nextToken = 1
  /\ reqs = [s \in Slots |-> Idle]
  /\ audit = << >>
  /\ calc \in {[NoCalc EXCEPT !.step = "called", !.priceCents = p, !.royaltyChain = c] :
                 p \in Prices, c \in Chains}

Compute ==
  /\ calc.step = "called"
  /\ calc' = [calc EXCEPT !.step = "priced",
                          !.pricing = calculatePricing(calc.priceCents, calc.royaltyChain)]
  /\ UNCHANGED << orders, payouts, overrides, now, nextToken, reqs, audit >>

Settle ==
  /\ calc.step = "priced"
  /\ calc' = [calc EXCEPT !.step = "settled",
                          !.payoutRows = PayoutRows(1, calc.pricing.total_cents
                                                       - calc.pricing.pif_fee_cents,
                                                    calc.royaltyChain)]
  /\ UNCHANGED << orders, payouts, overrides, now, nextToken, reqs, audit >>

PricingNext ==
  \/ Compute
  \/ Settle

PricingSpec == PricingInit /\ [][PricingNext]_vars

\* One request at a time, with checkout called again and again: for listings
\* of every kind (listed, draft, missing, with a split that is empty or does
\* not add up), with the admin switching either flag either way.
Shop == Limits(TRUE, ShopMaxTokens, ShopMaxOrders)

ShopNext ==
  \/ DoCreateCheckout({0, 1, 3, 4, 5, MissingFile}, {NoUser, Buyer}, Shop)
  \/ DoAdminOverridesPut({TRUE}, {"master_switch", "marketplace_purchase"}, BOOLEAN, Shop)
  \/ DoStripeWebhook({"valid"}, {"checkout.session.completed"}, {1}, {Buyer}, Shop)
  \/ DoCheckoutUpdate(Shop)
  \/ DoCheckoutPayouts(Shop)
  \/ DoResendDownload({Buyer}, Shop)
  \/ DoResendUpdate(Shop)
  \/ DoDownload({Buyer}, Shop)
  \/ DoDownloadTrack(Shop)
  \/ DoTick({DOWNLOAD_TOKEN_TTL_H + 1}, Shop)

ShopSpec == Init /\ [][ShopNext]_vars

\* Concurrent renewals: the payment of one order of listing 1 and the buyer's
\* resend-download requests, interleaved freely, with tokens enough for three
\* renewals.
Race == Limits(FALSE, RaceMaxTokens, MaxOrders)

RaceNext ==
  \/ DoCreateCheckout({1}, {Buyer}, Race)
  \/ DoAdminOverridesPut({TRUE}, {"marketplace_purchase"}, {TRUE}, Race)
  \/ DoStripeWebhook({"valid"}, {"checkout.session.completed"}, {1}, {Buyer}, Race)
  \/ DoCheckoutUpdate(Race)
  \/ DoCheckoutPayouts(Race)
  \/ DoResendDownload({Buyer}, Race)
  \/ DoResendUpdate(Race)

RaceSpec == Init /\ [][RaceNext]_vars

\* Concurrent downloads whose tracking update is always stored: the payment
\* of one order of listing 1 and downloads by anyone holding a token,
\* interleaved freely while the clock moves.
DoDownloadTrackStored(L) == (\E s \in Slots : DownloadTrack(s, TRUE)) /\ Within(L)

Redeem == Limits(FALSE, RedeemMaxTokens, MaxOrders)

RedeemNext ==
  \/ DoCreateCheckout({1}, {Buyer}, Redeem)
  \/ DoAdminOverridesPut({TRUE}, {"marketplace_purchase"}, {TRUE}, Redeem)
  \/ DoStripeWebhook({"valid"}, {"checkout.session.completed"}, {1}, {Buyer}, Redeem)
  \/ DoCheckoutUpdate(Redeem)
  \/ DoCheckoutPayouts(Redeem)
  \/ DoDownload({NoUser, Buyer}, Redeem)
  \/ DoDownloadTrackStored(Redeem)
  \/ DoTick(Ticks, Redeem)

RedeemSpec == Init /\ [][RedeemNext]_vars

\* =================================================================== claims
\* Rows of the payouts table that belong to an order.
RECURSIVE Copies(_, _)
Copies(table, rows) ==
  IF rows = {} THEN 0
  ELSE LET r == CHOOSE x \in rows : TRUE
       IN CopiesIn(r, table) + Copies(table, rows \ {r})

PayoutCount(oid) == Copies(payouts, {r \in BagToSet(payouts) : r.order_id = oid})

SplitSize(oid) == Len(file_royalty_chain(orders[oid].file_id))

\* A handler at position pc is in flight for the order.
InFlight(pc, oid) == \E s \in Slots : reqs[s].pc = pc /\ reqs[s].oid = oid

\* Slot s leaves position pc in this step.
Leaves(s, pc) == reqs[s].pc = pc /\ reqs'[s].pc # pc

\* C1: however often checkout.session.completed is handled for one session,
\* the order keeps at most one batch of payout rows (one row per participant
\* of its split) and the paid_at it was first given.
C1_CompletionIdempotent ==
  [][\A i \in DOMAIN orders :
       /\ orders[i].paid_at # NULL => orders'[i].paid_at = orders[i].paid_at
       /\ PayoutCount(i)' <= SplitSize(i)]_vars

\* C2: the update of a checkout.session.completed handler that finds the order
\* already paid leaves paid_at, download_token and download_expires_at as they
\* were.
C2_ReplayKeepsPaidOrder ==
  [][\A s \in Slots :
       (Leaves(s, "ck_update") /\ orders[reqs[s].oid].payment_status = "paid")
         => /\ orders'[reqs[s].oid].paid_at = orders[reqs[s].oid].paid_at
            /\ orders'[reqs[s].oid].download_token = orders[reqs[s].oid].download_token
            /\ orders'[reqs[s].oid].download_expires_at
                 = orders[reqs[s].oid].download_expires_at]_vars

\* C3: an order is created pending, and whenever its payment_status changes
\* the change is pending -> paid, pending -> failed or paid -> refunded.
C3_Transitions ==
  [][/\ \A i \in DOMAIN orders :
          /\ i \in DOMAIN orders'
          /\ orders'[i].payment_status # orders[i].payment_status
               => << orders[i].payment_status, orders'[i].payment_status >>
                    \in {<< "pending", "paid" >>, << "pending", "failed" >>,
                         << "paid", "refunded" >>}
     /\ \A i \in DOMAIN orders' \ DOMAIN orders :
          orders'[i].payment_status = "pending"]_vars

C3_Witness ==
  \E i \in DOMAIN orders : orders[i].payment_status = "paid" /\ PayoutCount(i) > 0

\* C4: a paid order has paid_at, download_token and download_expires_at set.
C4_PaidHasCredential ==
  \A i \in DOMAIN orders :
    orders[i].payment_status = "paid"
      => /\ orders[i].paid_at # NULL
         /\ orders[i].download_token # NULL
         /\ orders[i].download_expires_at # NULL

\* The paid order is observable while its handler has not yet inserted payouts.
C4_Witness ==
  \E i \in DOMAIN orders :
    orders[i].payment_status = "paid" /\ InFlight("ck_payouts", i) /\ PayoutCount(i) = 0

\* C5: only a paid order carries a download token or an expiry.
C5_CredentialOnlyWhenPaid ==
  \A i \in DOMAIN orders :
    (orders[i].download_token # NULL \/ orders[i].download_expires_at # NULL)
      => orders[i].payment_status = "paid"

\* A paid order whose token a resend has replaced.
C5_Witness ==
  \E i \in DOMAIN orders :
    /\ orders[i].payment_status = "paid"
    /\ orders[i].delivery_email_retries > 0
    /\ orders[i].download_token # NULL

\* C6: with requests one at a time, of the buyer's resend-download calls on a
\* paid order that the handler answers, the first MAX_DELIVERY_RETRIES return
\* 200 and bump delivery_email_retries by one each; every later one is turned
\* away (429) and leaves the order as it is.
C6_RetryCapSequential ==
  [][\A i \in DOMAIN orders :
       /\ ~InFlight("rn_update", i)'
            => /\ audit'[i].renewOk = IF audit'[i].renewCalls <= MAX_DELIVERY_RETRIES
                                        THEN audit'[i].renewCalls
                                        ELSE MAX_DELIVERY_RETRIES
               /\ orders'[i].delivery_email_retries = audit'[i].renewOk
       /\ (audit'[i].renewCalls > audit[i].renewCalls /\ audit'[i].renewOk = audit[i].renewOk)
            => /\ audit[i].renewCalls >= MAX_DELIVERY_RETRIES
               /\ orders' = orders]_vars

\* The sixth call has been turned away.
C6_Witness ==
  \E i \in DOMAIN orders :
    /\ audit[i].renewCalls = MAX_DELIVERY_RETRIES + 1
    /\ audit[i].renewOk = MAX_DELIVERY_RETRIES
    /\ orders[i].delivery_email_retries = MAX_DELIVERY_RETRIES

\* C7: under any interleaving, the renewals that returned 200 number
\* delivery_email_retries, at most MAX_DELIVERY_RETRIES, and a resend's update
\* finds the count it read.
C7_RetryCapConcurrent ==
  [][/\ \A i \in DOMAIN orders' :
          /\ audit'[i].renewOk = orders'[i].delivery_email_retries
          /\ audit'[i].renewOk <= MAX_DELIVERY_RETRIES
     /\ \A s \in Slots :
          (Leaves(s, "rn_update") /\ orders' # orders)
            => orders[reqs[s].oid].delivery_email_retries = reqs[s].n]_vars

\* C8: when payment handlers for one session interleave (and no resend has
\* touched the order), the order keeps one batch of payout rows and one
\* paid_at, each handler's delivery e-mail carries the token the order holds,
\* and a handler's update does not replace what another handler wrote.
C8_DuplicateDeliveryConcurrent ==
  [][\A s \in Slots :
       LET i == reqs[s].oid IN
       /\ Leaves(s, "ck_payouts") => PayoutCount(i)' <= SplitSize(i)
       /\ (Leaves(s, "ck_update") /\ orders[i].paid_at # NULL)
            => orders'[i].paid_at = orders[i].paid_at
       /\ (Leaves(s, "ck_payouts") /\ audit[i].renewOk = 0 /\ ~InFlight("rn_update", i))
            => orders[i].download_token = reqs[s].tok
       /\ (Leaves(s, "ck_update") /\ \E t \in Slots \ {s} :
                                       reqs[t].oid = i /\ reqs[t].pc = "ck_payouts")
            => orders'[i] = orders[i]]_vars

\* C9: whatever an order's delivery_email_retries and payment_status, a
\* signed-in user who is not its buyer is answered 403 by resend-download, and
\* the call writes nothing.
C9_RenewForbidden ==
  [][\A i \in DOMAIN orders, u \in Users \ {NoUser} :
       u # orders[i].buyer_email
         => /\ ResendGate(u, i) = 403
            /\ ResendDownload(u, i) => UNCHANGED << orders, payouts, reqs, nextToken >>]_vars

\* An order out of retries, which a stranger still may not renew.
C9_Witness ==
  \E i \in DOMAIN orders :
    /\ orders[i].delivery_email_retries = MAX_DELIVERY_RETRIES
    /\ ResendGate(Other, i) = 403

\* C10: past download_expires_at, the current token of a paid order is answered
\* 410 for an anonymous caller and for a signed-in user who is not the buyer,
\* and is accepted for the buyer; the download that follows leaves
\* delivery_email_retries (and the credential) as it was.
C10_Expiry ==
  [][/\ \A i \in DOMAIN orders :
          (orders[i].payment_status = "paid" /\ now > orders[i].download_expires_at)
            => /\ \A u \in Users \ {orders[i].buyer_email} :
                    /\ DownloadGate(orders[i].download_token, u) = 410
                    /\ Download(orders[i].download_token, u) => UNCHANGED << orders, reqs >>
               /\ DownloadGate(orders[i].download_token, orders[i].buyer_email) = 0
     /\ \A s \in Slots :
          Leaves(s, "dl_track")
            => /\ orders'[reqs[s].oid].delivery_email_retries
                    = orders[reqs[s].oid].delivery_email_retries
               /\ orders'[reqs[s].oid].download_token = orders[reqs[s].oid].download_token
               /\ orders'[reqs[s].oid].download_expires_at
                    = orders[reqs[s].oid].download_expires_at]_vars

\* The buyer's download of an expired token has gone through, after a resend.
C10_Witness ==
  \E i \in DOMAIN orders :
    /\ orders[i].downloaded_at # NULL
    /\ orders[i].downloaded_at > orders[i].download_expires_at
    /\ orders[i].download_attempts > 0
    /\ orders[i].delivery_email_retries > 0

\* C11: a resend-download that stores its update leaves the order holding
\* the token it issued; and once an order has been renewed, its current token
\* is the only token issued so far that resolves to it: download answers 404
\* for every other one that no order holds, whoever asks.
C11_OneValidToken ==
  [][/\ \A s \in Slots :
          (Leaves(s, "rn_update") /\ orders' # orders)
            => orders'[reqs[s].oid].download_token = reqs[s].tok
     /\ (\A i \in DOMAIN orders :
           orders[i].delivery_email_retries > 0
             => /\ OrderByToken(orders[i].download_token) = i
                /\ \A t \in (1..nextToken - 1) \ {orders[i].download_token} :
                     /\ OrderByToken(t) # i
                     /\ OrderByToken(t) = 0
                          => \A u \in Users : DownloadGate(t, u) = 404)']_vars

\* A token issued earlier has been replaced, and download turns it away.
C11_Witness ==
  \E i \in DOMAIN orders :
    /\ orders[i].delivery_email_retries > 0
    /\ orders[i].download_token # NULL
    /\ \E t \in 1..nextToken - 1 :
         t # orders[i].download_token /\ DownloadGate(t, Buyer) = 404

\* C12: download answers 404 for a token that no order currently holds and
\* 403 for the token of an order that is not paid; either way the handler
\* returns before its tracking update, so no order changes.
C12_RedeemRefused ==
  [][\A t \in 1..nextToken, u \in Users :
       /\ (\A i \in DOMAIN orders : orders[i].download_token # t)
            => /\ DownloadGate(t, u) = 404
               /\ Download(t, u) => UNCHANGED << orders, reqs >>
       /\ (\E i \in DOMAIN orders :
             orders[i].download_token = t /\ orders[i].payment_status # "paid")
            => /\ DownloadGate(t, u) = 403
               /\ Download(t, u) => UNCHANGED << orders, reqs >>]_vars

\* A download has been tracked on a paid order while an issued token that no
\* order holds any more is turned away.
C12_Witness ==
  /\ \E i \in DOMAIN orders :
       orders[i].payment_status = "paid" /\ orders[i].download_attempts > 0
  /\ \E t \in 1..nextToken - 1 :
       /\ \A i \in DOMAIN orders : orders[i].download_token # t
       /\ DownloadGate(t, NoUser) = 404

\* C13 as stated: with requests one at a time, every download that is let
\* through (302) raises download_attempts by exactly one and sets
\* downloaded_at to the time of the call.
C13_EveryRedeemCounted ==
  [][\A s \in Slots :
       Leaves(s, "dl_track")
         => /\ orders'[reqs[s].oid].download_attempts
                 = orders[reqs[s].oid].download_attempts + 1
            /\ orders'[reqs[s].oid].downloaded_at = reqs[s].at]_vars

\* C13, amended: with requests one at a time, a download that is let through
\* either has its tracking update stored, which raises download_attempts by
\* exactly one, sets downloaded_at to the time of the call and changes
\* nothing else, or the update fails and the order stays as it was.
C13_StoredRedeemCounted ==
  [][\A s \in Slots :
       Leaves(s, "dl_track")
         => \/ orders' = orders
            \/ /\ reqs[s].at = now
               /\ orders' = [orders EXCEPT
                    ![reqs[s].oid].download_attempts = @ + 1,
                    ![reqs[s].oid].downloaded_at = now]]_vars

\* Two downloads in a row have been counted.
C13_Witness ==
  \E i \in DOMAIN orders :
    orders[i].download_attempts = 2 /\ orders[i].downloaded_at # NULL

\* C14: for a request that names a file and a buyer, create-checkout answers
\* 403 when marketplace_purchase is off, whatever the listing; otherwise 404
\* for a file with no row; otherwise 422 for a file that is not listed;
\* otherwise 500 for a listing without royalty chain; and a request that is
\* turned away inserts no order.
C14_CheckoutCheckOrder ==
  [][\A f \in FileIds \cup {MissingFile}, e \in Users \ {NoUser} :
       /\ ~overrides["marketplace_purchase"] => CheckoutGate(f, e) = 403
       /\ (overrides["marketplace_purchase"] /\ f \notin FileIds)
            => CheckoutGate(f, e) = 404
       /\ (overrides["marketplace_purchase"] /\ f \in FileIds
           /\ files(f).stage # "listed")
            => CheckoutGate(f, e) = 422
       /\ (overrides["marketplace_purchase"] /\ f \in FileIds
           /\ files(f).stage = "listed" /\ file_royalty_chain(f) = << >>)
            => CheckoutGate(f, e) = 500
       /\ CheckoutGate(f, e) # 0
            => \A ok \in BOOLEAN : CreateCheckout(f, e, ok) => orders' = orders]_vars

\* Purchasing was on and has been switched off again: every listing, missing
\* or not, is now answered 403.
C14_Witness ==
  /\ Len(orders) > 0
  /\ ~overrides["marketplace_purchase"]
  /\ CheckoutGate(MissingFile, Buyer) = 403
  /\ CheckoutGate(3, Buyer) = 403

\* The share_basis_points of a royalty chain, added up.
RECURSIVE ShareSum(_)
ShareSum(royaltyChain) ==
  IF royaltyChain = << >> THEN 0
  ELSE Head(royaltyChain).share_basis_points + ShareSum(Tail(royaltyChain))

\* C15: every order is for a listing whose royalty chain is not empty and
\* whose shares add up to exactly 10000 basis points.
C15_NoOrderOnBadSplit ==
  \A i \in DOMAIN orders :
    /\ file_royalty_chain(orders[i].file_id) # << >>
    /\ ShareSum(file_royalty_chain(orders[i].file_id)) = BASIS_POINTS

\* C16: create-checkout passes its feature gate only when master_switch and
\* marketplace_purchase are both on: with master_switch off a request is
\* answered 403, and an order is only ever inserted with both on.
C16_MasterSwitchGatesCheckout ==
  [][/\ ~overrides["master_switch"]
          => \A f \in FileIds, e \in Users \ {NoUser} : CheckoutGate(f, e) = 403
     /\ Len(orders') > Len(orders)
          => overrides["master_switch"] /\ overrides["marketplace_purchase"]]_vars

\* C17: a create-checkout call that passes its checks and whose insert is
\* stored adds exactly one order; whenever an order is added it is one row,
\* pending, with a session id no earlier order has, without token, expiry or
\* paid_at, and with the total and fee calculatePricing gives for the price
\* of its file; the orders that were there before stay as they were.
C17_CheckoutCreatesOneOrder ==
  [][/\ \A f \in FileIds, e \in Users :
          (CheckoutGate(f, e) = 0 /\ CreateCheckout(f, e, TRUE))
            => Len(orders') = Len(orders) + 1
     /\ Len(orders') # Len(orders)
          => /\ Len(orders') = Len(orders) + 1
             /\ SubSeq(orders', 1, Len(orders)) = orders
             /\ LET o == orders'[Len(orders')]
                    pricing == calculatePricing(files(o.file_id).price_cents,
                                                file_royalty_chain(o.file_id))
                IN /\ o.payment_status = "pending"
                   /\ \A i \in DOMAIN orders :
                        orders[i].stripe_session_id # o.stripe_session_id
                   /\ o.download_token = NULL
                   /\ o.download_expires_at = NULL
                   /\ o.paid_at = NULL
                   /\ o.total_cents = pricing.total_cents
                   /\ o.pif_fee_cents = pricing.pif_fee_cents]_vars

\* A second order has been created while the first is still pending.
C17_Witness ==
  /\ Len(orders) = 2
  /\ orders[1].payment_status = "pending"
  /\ orders[2].payment_status = "pending"
  /\ orders[1].stripe_session_id # orders[2].stripe_session_id

\* C18: every order is for a file that has a row and is listed, and
\* create-checkout turns away every request for a file that is not listed.
C18_OrdersOnListedFiles ==
  /\ \A i \in DOMAIN orders :
       orders[i].file_id \in FileIds /\ files(orders[i].file_id).stage = "listed"
  /\ \A f \in FileIds, e \in Users :
       files(f).stage # "listed" => CheckoutGate(f, e) # 0

\* With purchasing on and an order already paid, the draft listing (which has
\* a royalty chain) is answered 422.
C18_Witness ==
  /\ \E i \in DOMAIN orders : orders[i].payment_status = "paid"
  /\ file_royalty_chain(3) # << >>
  /\ CheckoutGate(3, Buyer) = 422

\* C19: for every base price and royalty chain it is called with,
\* calculatePricing returns a total that is the base price plus the fee, and
\* a fee that is the base price divided by ten, rounded half up.
C19_FeeIsTenPercent ==
  calc.step \in {"priced", "settled"}
    => /\ calc.pricing.base_price_cents = calc.priceCents
       /\ calc.pricing.total_cents = calc.priceCents + calc.pricing.pif_fee_cents
       /\ 10 * calc.pricing.pif_fee_cents - 5 <= calc.priceCents
       /\ calc.priceCents < 10 * calc.pricing.pif_fee_cents + 5

\* Base price 500 has been priced: fee 50, total 550.
C19_Witness ==
  /\ calc.step = "priced"
  /\ calc.priceCents = 500
  /\ calc.pricing.pif_fee_cents = 50
  /\ calc.pricing.total_cents = 550

\* The amount_cents of a sequence of payouts, added up.
RECURSIVE AmountSum(_)
AmountSum(rows) ==
  IF rows = << >> THEN 0 ELSE Head(rows).amount_cents + AmountSum(Tail(rows))

\* C20: for every base price and every royalty chain whose shares add up to
\* exactly 10000, the payouts calculatePricing returns, and the payout rows
\* computed for the paid order, add up to no more than the base price.
C20_PayoutsWithinBasePrice ==
  ShareSum(calc.royaltyChain) = BASIS_POINTS
    => /\ calc.step \in {"priced", "settled"}
            => AmountSum(calc.pricing.payouts) <= calc.priceCents
       /\ calc.step = "settled" => AmountSum(calc.payoutRows) <= calc.priceCents

\* C21: a call of calculatePricing with a royalty chain whose shares do not
\* add up to exactly 10000 returns no pricing.
C21_InvalidSplitRejected ==
  (calc.step \in {"priced", "settled"} /\ ShareSum(calc.royaltyChain) # BASIS_POINTS)
    => calc.pricing = NoPricing

\* C22: every payout row belongs to an order that is paid; a row is inserted
\* with status pending; and no row, once inserted, is changed or removed.
C22_PayoutsOfPaidOrders ==
  [][/\ (\A r \in BagToSet(payouts) :
           /\ r.order_id \in DOMAIN orders
           /\ orders[r.order_id].payment_status = "paid")'
     /\ payouts \sqsubseteq payouts'
     /\ \A r \in BagToSet(payouts' (-) payouts) : r.status = "pending"]_vars

\* Payout rows are still there after the order has been renewed.
C22_Witness ==
  /\ payouts # EmptyBag
  /\ \E i \in DOMAIN orders :
       /\ orders[i].payment_status = "paid"
       /\ orders[i].delivery_email_retries > 0
       /\ PayoutCount(i) > 0

\* C23: a payment_intent.payment_failed event for the session of a pending
\* order can move that order to failed.
C23_PaymentFailedMovesPending ==
  \A i \in DOMAIN orders :
    orders[i].payment_status = "pending"
      => ENABLED (/\ StripeWebhook("valid", "payment_intent.payment_failed",
                                   orders[i].stripe_session_id, orders[i].file_id,
                                   orders[i].buyer_email)
                  /\ orders'[i].payment_status = "failed")

\* C24: a checkout.session.completed event whose signature is missing or
\* invalid is answered 401 and starts nothing, whatever order it names.
C24_UnauthenticatedRejected ==
  \A sig \in {"missing", "invalid"} : \A i \in DOMAIN orders :
    /\ WebhookGate(sig, "checkout.session.completed", orders[i].stripe_session_id,
                   orders[i].file_id, orders[i].buyer_email) = 401
    /\ ~ ENABLED (/\ StripeWebhook(sig, "checkout.session.completed",
                                   orders[i].stripe_session_id, orders[i].file_id,
                                   orders[i].buyer_email)
                  /\ reqs' # reqs)

\* C25: a well-formed, authenticated checkout.session.completed event whose
\* session id matches no order is answered 404 and changes nothing: no order,
\* no payout row, no request under way.
C25_UnknownSessionChangesNothing ==
  \A sid \in 1..MaxOrders + 1 :
    (\A i \in DOMAIN orders : orders[i].stripe_session_id # sid)
      => /\ WebhookGate("valid", "checkout.session.completed", sid, 1, Buyer) = 404
         /\ ~ ENABLED (/\ StripeWebhook("valid", "checkout.session.completed", sid, 1,
                                        Buyer)
                       /\ vars' # vars)

\* An order is waiting for its payment and some other session id matches no order.
C25_Witness ==
  /\ \E i \in DOMAIN orders : orders[i].payment_status = "pending"
  /\ \E sid \in 1..MaxOrders + 1 :
       /\ \A i \in DOMAIN orders : orders[i].stripe_session_id # sid
       /\ WebhookGate("valid", "checkout.session.completed", sid, 1, Buyer) = 404

\* C26: the webhook never answers an authenticated event with a status other
\* than 200 (0: the handler goes on to its update).
C26_AlwaysAcknowledged ==
  \A ty \in EventTypes : \A sid \in 1..MaxOrders + 1 :
    WebhookGate("valid", ty, sid, 1, Buyer) \in {0, 200}

\* C27: when handleCheckoutCompleted gets past its payout insert, failed or
\* not, the order is paid with paid_at and a credential, the handler is
\* through (it answers 200), and the insert has added to the order either no
\* row or one row for every participant of the royalty chain it read.
C27_PayoutFailureKeepsPaid ==
  [][\A s \in Slots : \A i \in DOMAIN orders :
       (Leaves(s, "ck_payouts") /\ reqs[s].oid = i)
         => /\ orders'[i].payment_status = "paid"
            /\ orders'[i].paid_at # NULL
            /\ orders'[i].download_token # NULL
            /\ orders'[i].download_expires_at # NULL
            /\ reqs'[s] = Idle
            /\ PayoutCount(i)' - PayoutCount(i)
                 \in {0, Len(file_royalty_chain(reqs[s].file))}]_vars

\* The payout insert for an order of the two-participant listing has failed:
\* the order is paid, no handler is under way and it has no payout row.
C27_Witness ==
  /\ \A s \in Slots : reqs[s].pc = "idle"
  /\ \E i \in DOMAIN orders :
       /\ orders[i].file_id = 2
       /\ orders[i].payment_status = "paid"
       /\ orders[i].download_token # NULL
       /\ PayoutCount(i) = 0

\* C28: for the listed listing 1 (price 500, one participant holding 10000
\* basis points), with every statement stored: create-checkout inserts a
\* pending order with fee 50 and total 550; the update of
\* checkout.session.completed makes it paid, with the handler's token expiring
\* 72 hours after paid_at; the first payout insert adds exactly one row, of
\* 500 and pending; the token is then let through by download while it has
\* not expired; and the first tracking update leaves download_attempts = 1.
C28_EndToEnd ==
  [][/\ \A i \in DOMAIN orders' \ DOMAIN orders :
          orders'[i].file_id = 1
            => /\ orders'[i].payment_status = "pending"
               /\ orders'[i].pif_fee_cents = 50
               /\ orders'[i].total_cents = 550
               /\ orders'[i].download_token = NULL
     /\ \A s \in Slots : \A i \in DOMAIN orders :
          /\ (/\ Leaves(s, "ck_update") /\ reqs[s].oid = i
              /\ orders[i].payment_status = "pending" /\ orders' # orders)
               => /\ orders'[i].payment_status = "paid"
                  /\ orders'[i].paid_at = now
                  /\ orders'[i].download_token = reqs[s].tok
                  /\ orders'[i].download_expires_at
                       = orders'[i].paid_at + DOWNLOAD_TOKEN_TTL_H
          /\ (/\ Leaves(s, "ck_payouts") /\ reqs[s].oid = i
              /\ PayoutCount(i) = 0 /\ payouts' # payouts)
               => payouts' = payouts (+) SetToBag({[order_id |-> i, member_id |-> 1,
                                                    amount_cents |-> 500,
                                                    status |-> "pending"]})
          /\ (/\ Leaves(s, "dl_track") /\ reqs[s].oid = i
              /\ orders[i].download_attempts = 0 /\ orders' # orders)
               => orders'[i].download_attempts = 1
     /\ \A i \in DOMAIN orders :
          (orders[i].payment_status = "paid" /\ now <= orders[i].download_expires_at)
            => \A u \in Users : DownloadGate(orders[i].download_token, u) = 0]_vars

\* The whole path has been walked once: the order of listing 1 is paid, holds
\* its first credential, has its one payout row and one counted download.
C28_Witness ==
  \E i \in DOMAIN orders :
    /\ orders[i].file_id = 1
    /\ orders[i].total_cents = 550
    /\ orders[i].pif_fee_cents = 50
    /\ orders[i].payment_status = "paid"
    /\ orders[i].download_expires_at = orders[i].paid_at + DOWNLOAD_TOKEN_TTL_H
    /\ orders[i].delivery_email_retries = 0
    /\ payouts = SetToBag({[order_id |-> i, member_id |-> 1, amount_cents |-> 500,
                            status |-> "pending"]})
    /\ orders[i].download_attempts = 1
    /\ orders[i].downloaded_at <= orders[i].download_expires_at

\* C29: once an order's delivery_email_retries has reached the limit, no step
\* changes its download_token or its download_expires_at.
C29_ExhaustedIsTerminal ==
  [][\A i \in DOMAIN orders :
       orders[i].delivery_email_retries >= MAX_DELIVERY_RETRIES
         => /\ orders'[i].download_token = orders[i].download_token
            /\ orders'[i].download_expires_at = orders[i].download_expires_at]_vars

\* C30: however resend-download requests interleave, an order's
\* delivery_email_retries stays between 0 and the limit and no step lowers it.
C30_RetryCountMonotone ==
  [][\A i \in DOMAIN orders :
       /\ orders'[i].delivery_email_retries \in 0..MAX_DELIVERY_RETRIES
       /\ orders'[i].delivery_email_retries >= orders[i].delivery_email_retries]_vars

\* C31: no step removes an order or changes an existing order's total_cents,
\* pif_fee_cents, file_id, buyer_email or stripe_session_id; an order's id is
\* its place in the table, which it keeps.
C31_OrderIdentityImmutable ==
  [][/\ Len(orders') >= Len(orders)
     /\ \A i \in DOMAIN orders :
          /\ orders'[i].total_cents = orders[i].total_cents
          /\ orders'[i].pif_fee_cents = orders[i].pif_fee_cents
          /\ orders'[i].file_id = orders[i].file_id
          /\ orders'[i].buyer_email = orders[i].buyer_email
          /\ orders'[i].stripe_session_id = orders[i].stripe_session_id]_vars

\* The order has been through the webhook, a renewal and a download.
C31_Witness ==
  \E i \in DOMAIN orders :
    /\ orders[i].payment_status = "paid"
    /\ orders[i].delivery_email_retries > 0
    /\ orders[i].download_attempts > 0
    /\ orders[i].total_cents = 550
    /\ orders[i].stripe_session_id = i

\* C32: the buyer's resend-download for an order that is not paid is answered
\* 422 and changes nothing: no handler starts, no token is taken, the order
\* keeps its empty credential and its retry count.
C32_RenewNeedsPaid ==
  \A i \in DOMAIN orders :
    orders[i].payment_status # "paid"
      => /\ ResendGate(orders[i].buyer_email, i) = 422
         /\ ~ ENABLED (ResendDownload(orders[i].buyer_email, i) /\ vars' # vars)
         /\ orders[i].download_token = NULL
         /\ orders[i].download_expires_at = NULL
         /\ orders[i].delivery_email_retries = 0

\* The buyer's order is still waiting for its payment.
C32_Witness ==
  \E i \in DOMAIN orders :
    /\ orders[i].payment_status = "pending"
    /\ orders[i].buyer_email = Buyer
    /\ ResendGate(Buyer, i) = 422

\* C33: an authenticated checkout.session.completed event for the session of
\* a pending order goes on to the update that marks the order paid, whether
\* or not its metadata names a file and a buyer.
C33_CompletionIgnoresMetadata ==
  \A i \in DOMAIN orders :
    orders[i].payment_status = "pending"
      => \A mf \in {0, orders[i].file_id}, me \in {NoUser, orders[i].buyer_email} :
           WebhookGate("valid", "checkout.session.completed",
                       orders[i].stripe_session_id, mf, me) = 0

\* C34: the payout rows a checkout.session.completed handler inserts for an
\* order are those of the royalty chain of the order's own file, each a share
\* of the order's base price, whatever file the event metadata names.
C34_PayoutsFollowOrderListing ==
  [][\A s \in Slots : \A i \in DOMAIN orders :
       (Leaves(s, "ck_payouts") /\ reqs[s].oid = i /\ payouts' # payouts)
         => payouts' = InsertRows(payouts,
                                  PayoutRows(i, orders[i].total_cents
                                                  - orders[i].pif_fee_cents,
                                             file_royalty_chain(orders[i].file_id)))]_vars

\* C35: a stored update of checkout.session.completed or of resend-download
\* sets download_expires_at to the time at which its handler read the clock
\* plus 72 hours, and the tracking update of download leaves
\* download_expires_at as it was.
C35_ExpiryIsIssueTimePlusTtl ==
  [][\A s \in Slots : \A i \in DOMAIN orders :
       /\ (/\ (Leaves(s, "ck_update") \/ Leaves(s, "rn_update"))
           /\ reqs[s].oid = i /\ orders' # orders)
            => orders'[i].download_expires_at = reqs[s].at + DOWNLOAD_TOKEN_TTL_H
       /\ (Leaves(s, "dl_track") /\ reqs[s].oid = i)
            => orders'[i].download_expires_at = orders[i].download_expires_at]_vars

\* A credential renewed after the first one ran out has been used.
C35_Witness ==
  \E i \in DOMAIN orders :
    /\ orders[i].delivery_email_retries > 0
    /\ orders[i].download_expires_at > orders[i].paid_at + DOWNLOAD_TOKEN_TTL_H
    /\ orders[i].download_attempts > 0
    /\ orders[i].downloaded_at > orders[i].paid_at + DOWNLOAD_TOKEN_TTL_H

\* C36: when every tracking update is stored, each download that was let
\* through raises download_attempts by one when it finishes, however the
\* downloads interleave; so the count ends at the number of such downloads.
C36_NoLostRedeem ==
  [][\A s \in Slots : \A i \in DOMAIN orders :
       (Leaves(s, "dl_track") /\ reqs[s].oid = i)
         => orders'[i].download_attempts = orders[i].download_attempts + 1]_vars

\* C37: a download writes nothing but download_attempts and downloaded_at of
\* its order: the request itself, let through or turned away, changes no
\* order and no payout row, and its tracking update leaves every other column
\* of the order, every other order and the payouts as they are at that
\* moment, also when a resend-download was stored in between.
C37_RedeemFrame ==
  [][/\ \A t \in {NULL} \cup 1..nextToken, u \in Users :
          Download(t, u) => (orders' = orders /\ payouts' = payouts)
     /\ \A s \in Slots : \A i \in DOMAIN orders :
          (Leaves(s, "dl_track") /\ reqs[s].oid = i)
            => /\ orders' = [orders EXCEPT
                    ![i].download_attempts = orders'[i].download_attempts,
                    ![i].downloaded_at = orders'[i].downloaded_at]
               /\ payouts' = payouts]_vars

\* A renewed order has a counted download, and another download, let through
\* with a token since replaced by a renewal, is about to store its update.
C37_Witness ==
  \E i \in DOMAIN orders :
    /\ orders[i].download_attempts > 0
    /\ orders[i].delivery_email_retries > 0
    /\ orders[i].download_expires_at = orders[i].downloaded_at + DOWNLOAD_TOKEN_TTL_H
    /\ \E s \in Slots : reqs[s].pc = "dl_track" /\ reqs[s].oid = i
                        /\ reqs[s].tok # orders[i].download_token

\* C38: a resend-download creates no payout row; turned away, or with its
\* update failing, it leaves every order as it is; and its stored update
\* changes only the order's download_token, download_expires_at and
\* delivery_email_retries, raising the latter by one.
C38_RenewFrame ==
  [][/\ \A u \in Users, oid \in 0..MaxOrders + 1 :
          ResendDownload(u, oid) => (orders' = orders /\ payouts' = payouts)
     /\ \A s \in Slots : \A i \in DOMAIN orders :
          (Leaves(s, "rn_update") /\ reqs[s].oid = i)
            => /\ payouts' = payouts
               /\ \/ orders' = orders
                  \/ orders' = [orders EXCEPT
                       ![i].download_token = reqs[s].tok,
                       ![i].download_expires_at = reqs[s].exp,
                       ![i].delivery_email_retries = @ + 1]]_vars

\* C39: with requests one at a time, a download whose tracking update fails
\* is still through with the redirect (302), the order left as it was; and a
\* resend-download whose update is stored has the order hold the new token
\* with delivery_email_retries raised by one and answers 200 whether or not
\* the delivery e-mail was sent.
C39_NonCriticalFailures ==
  [][\A s \in Slots : \A i \in DOMAIN orders :
       /\ (reqs[s].pc = "dl_track" /\ reqs[s].oid = i)
            => /\ ENABLED (DownloadTrack(s, FALSE) /\ orders' = orders)
               /\ DownloadOutcome(FALSE) = 302
               /\ Leaves(s, "dl_track") => reqs'[s] = Idle
       /\ (Leaves(s, "rn_update") /\ reqs[s].oid = i /\ orders' # orders)
            => /\ orders'[i].download_token = reqs[s].tok
               /\ orders'[i].delivery_email_retries
                    = orders[i].delivery_email_retries + 1
               /\ reqs'[s] = Idle
               /\ \A emailSent \in BOOLEAN : ResendOutcome(TRUE, emailSent) = 200]_vars

\* A renewed order, and a download of it that is past its checks and about
\* to run its tracking update.
C39_Witness ==
  \E i \in DOMAIN orders : \E s \in Slots :
    /\ orders[i].delivery_email_retries > 0
    /\ reqs[s].pc = "dl_track" /\ reqs[s].oid = i
    /\ reqs[s].tok = orders[i].download_token
    /\ orders[i].download_attempts = 0

\* C40: in every state, the download of a paid order's current token by a
\* caller signed in as the order's buyer is let through: before and after
\* the token's expiry, and whatever the order's delivery_email_retries.
C40_BuyerNeverLockedOut ==
  \A i \in DOMAIN orders :
    orders[i].payment_status = "paid"
      => /\ OrderByToken(orders[i].download_token) = i
         /\ DownloadGate(orders[i].download_token, orders[i].buyer_email) = 0
         /\ HasFreeSlot
              => ENABLED (/\ Download(orders[i].download_token, orders[i].buyer_email)
                          /\ reqs'[FreeSlot].pc = "dl_track"
                          /\ reqs'[FreeSlot].oid = i)

\* The buyer has downloaded with the expired token of an order whose
\* delivery retries are used up.
C40_Witness ==
  \E i \in DOMAIN orders :
    /\ orders[i].payment_status = "paid"
    /\ orders[i].delivery_email_retries = MAX_DELIVERY_RETRIES
    /\ now > orders[i].download_expires_at
    /\ orders[i].downloaded_at = now
    /\ orders[i].download_attempts > 0

====
